---- MODULE Spec2Model ----
(***************************************************************************)
(* A model of generate_report.py: the report run over a list of projects,  *)
(* the paginated issue search (fetch_issues), the measures request         *)
(* (fetch_metrics), the issue table and severity matrix                    *)
(* (_format_issue_table), the roll-up loop and the writing of report.html. *)
(*                                                                         *)
(* Strings the program takes apart or compares (component paths, metric    *)
(* values) are sequences of one-character strings.  An issue carries the   *)
(* fields that decide control flow, ordering and counting (key, component, *)
(* severity, type, impacts, effort in minutes); message, rule and          *)
(* textRange are copied verbatim into a row by the program and are left    *)
(* out.                                                                    *)
(***************************************************************************)
EXTENDS Integers, Sequences, FiniteSets, TLC

VARIABLES
    args,                   \* the parsed command line flags
    projects,               \* the list of project keys
    pc,                     \* where the run is: loop, fetch_issues, fetch_metrics, done, exit
    exit_code,              \* -1 while running, then the process' exit status
    exit_msg,               \* what an aborted run printed
    report,                 \* report.html: <<>> until written, then <<document>>
    idx,                    \* position of the project loop in projects
    project_counter,
    total_effort, total_debt, total_hotspots, total_loc, total_complexity,
    total_severity_amounts,
    issues_data,            \* the rendered project fragments, in order
    p, total_pages, issues, file_counter, file_names, data,   \* fetch_issues' locals
    effort, debt,           \* what fetch_issues returned beside the issues
    srv,                    \* the server's open issues of the project being fetched
    changes,                \* 1 once the server's issues changed during this fetch, else 0
    requests,               \* history: every request issued, with the status received
    fetched                 \* history: what each completed fetch_issues call held at its return

vars == <<args, projects, pc, exit_code, exit_msg, report, idx, project_counter,
          total_effort, total_debt, total_hotspots, total_loc, total_complexity,
          total_severity_amounts, issues_data, p, total_pages, issues, file_counter,
          file_names, data, effort, debt, srv, changes, requests, fetched>>

\* ------------------------------------------------------------------ constants

ISSUE_SEVERITIES == <<"BLOCKER", "CRITICAL", "MAJOR", "MINOR", "INFO">>
IMPACT_SEVERITIES == <<"BLOCKER", "HIGH", "MEDIUM", "LOW", "INFO">>
CONVERT_TO_GRADES == {"reliability_rating", "security_rating", "sqale_rating"}
PERCENTAGE_METRICS == {"security_hotspots_reviewed", "line_coverage"}
ISSUE_TYPES == <<"CODE_SMELL", "BUG", "VULNERABILITY">>
IMPACT_TYPES == <<"SECURITY", "RELIABILITY", "MAINTAINABILITY">>

SEVERITIES == IF args.impact_severities THEN IMPACT_SEVERITIES ELSE ISSUE_SEVERITIES
TYPES == IF args.impact_qualities THEN IMPACT_TYPES ELSE ISSUE_TYPES

\* ------------------------------------------------------------------ strings

\* The characters in use, in code point order.
Chars == <<"%", ".", "/", "0", "1", "2", "3", "4", "5", "6", "7", "8", "9",
           "A", "B", "C", "D", "E", "_", "a", "b", "c", "d", "e", "f", "h", "i",
           "j", "l", "m", "n", "p", "y">>
Ord(c) == CHOOSE i \in DOMAIN Chars : Chars[i] = c
Digits == <<"0", "1", "2", "3", "4", "5", "6", "7", "8", "9">>

SetMax(S) == CHOOSE x \in S : \A y \in S : y <= x

\* Python's < on str: lexicographic by code point, a proper prefix first.
StrLess(a, b) ==
    \E i \in 1..Len(b) :
        /\ \A j \in 1..(i - 1) : j <= Len(a) /\ a[j] = b[j]
        /\ (i > Len(a) \/ (a[i] # b[i] /\ Ord(a[i]) < Ord(b[i])))

\* str(n), n >= 0.
RECURSIVE Str(_)
Str(n) == IF n < 10 THEN <<Digits[n + 1]>> ELSE Str(n \div 10) \o <<Digits[(n % 10) + 1]>>

DigitValue(c) == (CHOOSE i \in DOMAIN Digits : Digits[i] = c) - 1

\* int(s) of a string of decimal digits.
RECURSIVE ParseInt(_)
ParseInt(s) ==
    IF Len(s) = 0 THEN 0
    ELSE 10 * ParseInt(SubSeq(s, 1, Len(s) - 1)) + DigitValue(s[Len(s)])

\* int(float(s)) of "d.d": the digits before the point.
ParseFloatTrunc(s) ==
    LET dots == {i \in DOMAIN s : s[i] = "."}
    IN  IF dots = {} THEN ParseInt(s)
        ELSE ParseInt(SubSeq(s, 1, (CHOOSE i \in dots : \A j \in dots : i <= j) - 1))

\* component.split(".")[-1]: what follows the last ".", the whole string without one.
SplitLast(s) ==
    LET dots == {i \in DOMAIN s : s[i] = "."}
    IN  IF dots = {} THEN s ELSE SubSeq(s, SetMax(dots) + 1, Len(s))

\* f"file_{file_counter}.{file_ending}"
FileAlias(n, file_ending) == <<"f", "i", "l", "e", "_">> \o Str(n) \o <<".">> \o file_ending

\* ------------------------------------------------------------------ dicts
\* A Python dict keeps insertion order: a sequence of [k, v] with distinct k.

Has(d, k) == \E i \in DOMAIN d : d[i].k = k
Lookup(d, k) == d[CHOOSE i \in DOMAIN d : d[i].k = k].v
\* d[k] = v: an existing key keeps its place.
Put(d, k, v) ==
    IF Has(d, k)
    THEN [i \in DOMAIN d |-> IF d[i].k = k THEN [k |-> k, v |-> v] ELSE d[i]]
    ELSE Append(d, [k |-> k, v |-> v])

\* list.index, 1-based; 0 stands for the ValueError of a missing element.
Index(seq, x) ==
    IF \E i \in DOMAIN seq : seq[i] = x
    THEN CHOOSE i \in DOMAIN seq : seq[i] = x /\ \A j \in 1..(i - 1) : seq[j] # x
    ELSE 0

\* ------------------------------------------------------------------ _get

\* Faulty variant of GetFails: the status is never looked at.
GetNeverFails(status) == FALSE

\* _get: any status but 200 prints the body and exits.
GetFails(status) == status # 200

\* ------------------------------------------------------------------ fetch_issues

\* Faulty variants of TotalPages: integer division, and integer division plus one.
TotalPagesFloor(total, ps) == total \div ps
TotalPagesPlusOne(total, ps) == (total \div ps) + 1

\* math.ceil(total / ps)
TotalPages(total, ps) == IF total % ps = 0 THEN total \div ps ELSE (total \div ps) + 1

\* while p <= total_pages
LoopContinues(page, pages) == page <= pages

\* Lines 70-76: the component as stored, and the alias table after it.
\* st = [issues, file_names, file_counter].
AliasStep(st, component, anonymous) ==
    IF anonymous /\ ~Has(st.file_names, component)
    THEN [st EXCEPT !.file_names = Put(st.file_names, component,
                                       FileAlias(st.file_counter, SplitLast(component))),
                    !.file_counter = st.file_counter + 1]
    ELSE st

\* Lines 69-97 for one issue of the page.
IssueStep(st, issue, a) ==
    LET st1 == AliasStep(st, issue.component, a.anonymous)
        component == IF a.anonymous THEN Lookup(st1.file_names, issue.component)
                     ELSE issue.component
        severity == IF a.impact_severities THEN issue.impacts[1].severity ELSE issue.severity
        issue_type == IF a.impact_qualities THEN issue.impacts[1].softwareQuality ELSE issue.type
        issue_entry == [component |-> component, severity |-> severity, type |-> issue_type,
                        effort |-> issue.effort]
    IN  [st1 EXCEPT !.issues = Put(st1.issues, issue.key, issue_entry)]

\* for issue in data["issues"]
RECURSIVE PageLoop(_, _, _)
PageLoop(st, page, a) ==
    IF page = <<>> THEN st ELSE PageLoop(IssueStep(st, Head(page), a), Tail(page), a)

\* Faulty variant of DebtOf: no fallback, a payload without debtTotal counts as no debt.
DebtOfNoFallback(payload) ==
    IF "debtTotal" \in DOMAIN payload THEN payload.debtTotal ELSE 0

\* Lines 102-105: debtTotal, or effortTotal where the payload has none.
DebtOf(payload) ==
    IF "debtTotal" \in DOMAIN payload THEN payload.debtTotal ELSE payload.effortTotal

\* The server's answer to page pg: the pg-th slice of its issues, with the totals.
Slice(s, ps, pg) ==
    LET lo == (pg - 1) * ps + 1
        hi == IF pg * ps < Len(s) THEN pg * ps ELSE Len(s)
    IN  IF lo > Len(s) THEN <<>> ELSE SubSeq(s, lo, hi)

RECURSIVE SumEffort(_)
SumEffort(s) == IF s = <<>> THEN 0 ELSE Head(s).effort + SumEffort(Tail(s))

\* The search totals are the server's: total counts its open issues, effortTotal sums
\* their efforts, and debtTotal (srv.debtTotal = <<n>>) is missing from the payload of a
\* server version without the field (srv.debtTotal = <<>>).
Payload(pg) ==
    IF srv.debtTotal = <<>>
    THEN [issues |-> Slice(srv.issues, srv.ps, pg), total |-> Len(srv.issues),
          ps |-> srv.ps, effortTotal |-> SumEffort(srv.issues)]
    ELSE [issues |-> Slice(srv.issues, srv.ps, pg), total |-> Len(srv.issues),
          ps |-> srv.ps, effortTotal |-> SumEffort(srv.issues),
          debtTotal |-> srv.debtTotal[1]]

\* What the history keeps of a payload: everything but the issues.
Totals(payload) ==
    [total |-> payload.total, ps |-> payload.ps, effortTotal |-> payload.effortTotal,
     debtTotal |-> IF "debtTotal" \in DOMAIN payload THEN <<payload.debtTotal>> ELSE <<>>]

\* ------------------------------------------------------------------ fetch_metrics

\* _get_metric_name_from_key: the catalog's name of the key, the key itself without one.
MetricName(key, catalog) ==
    IF \E i \in DOMAIN catalog : catalog[i].key = key
    THEN catalog[CHOOSE i \in DOMAIN catalog :
                    catalog[i].key = key /\ \A j \in 1..(i - 1) : catalog[j].key # key].name
    ELSE key

\* _convert_to_grade: chr(ord("A") + int(float(rating)) - 1), for ratings 1.0 to 5.x.
Grades == <<"A", "B", "C", "D", "E">>
ConvertToGrade(rating) == <<Grades[ParseFloatTrunc(rating)]>>

\* _convert_to_readable_time
ConvertToReadableTime(minutes) ==
    IF minutes >= 60
    THEN Str(minutes \div 60) \o <<"h", " ">> \o Str(minutes % 60) \o <<"m", "i", "n">>
    ELSE Str(minutes) \o <<"m", "i", "n">>

\* Lines 113-121: the value as shown for one measure.
ConvertMeasure(metric) ==
    IF metric.metric \in CONVERT_TO_GRADES THEN ConvertToGrade(metric.value)
    ELSE IF metric.metric \in PERCENTAGE_METRICS THEN metric.value \o <<"%">>
    ELSE IF metric.metric = "sqale_index" THEN ConvertToReadableTime(ParseInt(metric.value))
    ELSE metric.value

\* for metric in data["component"]["measures"]: metrics[name] = value
RECURSIVE MeasureLoop(_, _, _)
MeasureLoop(metrics, measures, catalog) ==
    IF measures = <<>> THEN metrics
    ELSE MeasureLoop(Put(metrics, MetricName(Head(measures).metric, catalog),
                         ConvertMeasure(Head(measures))),
                     Tail(measures), catalog)

FetchMetrics(body) == MeasureLoop(<<>>, body.component.measures, body.metrics)

\* ------------------------------------------------------------------ _format_issue_table

\* Faulty variant of KeyLE: the key is the severity rank alone.
KeyLESeverityOnly(x, y, sevs) == Index(sevs, x.v.severity) <= Index(sevs, y.v.severity)

\* The sort key (SEVERITIES.index(severity), component), compared as Python compares tuples.
KeyLE(x, y, sevs) ==
    LET rx == Index(sevs, x.v.severity)
        ry == Index(sevs, y.v.severity)
    IN  \/ rx < ry
        \/ rx = ry /\ ~StrLess(y.v.component, x.v.component)

\* sorted() is stable: an item goes behind every item whose key is not greater.
RECURSIVE Sorted(_, _)
Sorted(items, sevs) ==
    IF items = <<>> THEN <<>>
    ELSE LET rest == Sorted(SubSeq(items, 1, Len(items) - 1), sevs)
             x == items[Len(items)]
             k == Cardinality({i \in DOMAIN rest : KeyLE(rest[i], x, sevs)})
         IN  SubSeq(rest, 1, k) \o <<x>> \o SubSeq(rest, k + 1, Len(rest))

\* The table's rows: the sorted issues' entries.
IssueRows(items, sevs) ==
    LET s == Sorted(items, sevs) IN [i \in DOMAIN s |-> s[i].v]

ZeroAmounts(sevs, types) ==
    [s \in {sevs[i] : i \in DOMAIN sevs} |-> [t \in DOMAIN types |-> 0]]

\* amounts[issue['severity']][TYPES.index(issue["type"])] += 1 over the issues.
Amounts(items, sevs, types) ==
    [s \in {sevs[i] : i \in DOMAIN sevs} |->
        [t \in DOMAIN types |->
            Cardinality({i \in DOMAIN items :
                            items[i].v.severity = s /\ Index(types, items[i].v.type) = t})]]

\* sorted() and the two index() calls raise ValueError on a label outside the vocabulary.
TableRaises(items, sevs, types) ==
    \E i \in DOMAIN items :
        Index(sevs, items[i].v.severity) = 0 \/ Index(types, items[i].v.type) = 0

\* Faulty variant of AddAmounts: = in place of +=.
AddAmountsOverwrite(total, amounts) ==
    [s \in DOMAIN total |-> [t \in DOMAIN total[s] |-> amounts[s][t]]]

\* Lines 249-251: total_severity_amounts[severity][x] += amounts[severity][x]
AddAmounts(total, amounts) ==
    [s \in DOMAIN total |-> [t \in DOMAIN total[s] |-> total[s][t] + amounts[s][t]]]

\* format_issues: the project's fragment of the report.
FormatIssues(items, metrics, project_id, a, sevs, types) ==
    [project_id |-> project_id,
     severities |-> Amounts(items, sevs, types),
     measures |-> metrics,
     issues |-> IF a.include_issue_details THEN IssueRows(items, sevs) ELSE <<>>]

\* ------------------------------------------------------------------ the run

\* The state after argument parsing and lines 213-227, for the flags and project
\* lists of D.
InitOf(D) ==
    /\ args \in D.Args
    /\ projects \in {[i \in 1..n |-> i] : n \in 0..D.MaxProjects}
    /\ pc = "loop"
    /\ exit_code = -1
    /\ exit_msg = ""
    /\ report = <<>>
    /\ idx = 1
    /\ project_counter = 1
    /\ total_effort = 0
    /\ total_debt = 0
    /\ total_hotspots = 0
    /\ total_loc = 0
    /\ total_complexity = 0
    /\ total_severity_amounts = ZeroAmounts(SEVERITIES, TYPES)
    /\ issues_data = <<>>
    /\ p = 0
    /\ total_pages = 0
    /\ issues = <<>>
    /\ file_counter = 0
    /\ file_names = <<>>
    /\ data = <<>>
    /\ effort = 0
    /\ debt = 0
    /\ srv = [issues |-> <<>>, ps |-> 1, next_key |-> 1, debtTotal |-> <<>>]
    /\ changes = 0
    /\ requests = <<>>
    /\ fetched = <<>>

main_totals == <<total_effort, total_debt, total_hotspots, total_loc, total_complexity,
                 total_severity_amounts, issues_data, project_counter>>
fetch_locals == <<p, total_pages, issues, file_counter, file_names, data>>

\* sys.exit(1) in _get, or an exception nothing catches: the process ends with status 1.
Abort(msg) ==
    /\ pc' = "exit"
    /\ exit_code' = 1
    /\ exit_msg' = msg
    /\ UNCHANGED <<args, projects, report, idx, main_totals, fetch_locals, effort, debt,
                   srv, changes, fetched>>

\* An issue record of the search payload.
RawIssue(key, kind) ==
    [key |-> key, component |-> kind.component, severity |-> kind.severity,
     type |-> kind.type, impacts |-> kind.impacts, effort |-> kind.effort]

\* The loop takes the next project and calls fetch_issues (lines 229-231, 61-65). The
\* server holds some open issues of the project, with distinct keys, and its page size.
ForProject(D) ==
    /\ pc = "loop"
    /\ idx <= Len(projects)
    /\ \E n \in 0..D.MaxTotal, ps \in 1..D.MaxPs, debtTotal \in D.Debts :
        \E kinds \in [1..n -> D.Kinds] :
            srv' = [issues |-> [i \in 1..n |-> RawIssue(i, kinds[i])],
                    ps |-> ps, next_key |-> n + 1, debtTotal |-> debtTotal]
    /\ changes' = 0
    /\ p' = 1
    /\ total_pages' = 1
    /\ issues' = <<>>
    /\ file_counter' = 1
    /\ file_names' = <<>>
    /\ pc' = "fetch_issues"
    /\ UNCHANGED <<args, projects, exit_code, exit_msg, report, idx, main_totals, data,
                   effort, debt, requests, fetched>>

\* Between two page requests of a fetch an issue is opened (it heads the result list) or
\* closed; this happens at most once during one fetch. D.Changes names the kinds of
\* change the server sees.
ServerChange(D) ==
    /\ pc = "fetch_issues"
    /\ p > 1
    /\ changes = 0
    /\ \/ /\ "open" \in D.Changes
          /\ \E kind \in D.Kinds :
                srv' = [srv EXCEPT !.issues = <<RawIssue(srv.next_key, kind)>> \o srv.issues,
                                   !.next_key = srv.next_key + 1]
       \/ /\ "close" \in D.Changes
          /\ \E i \in DOMAIN srv.issues :
                srv' = [srv EXCEPT !.issues = SubSeq(srv.issues, 1, i - 1)
                                              \o SubSeq(srv.issues, i + 1, Len(srv.issues))]
    /\ changes' = 1
    /\ UNCHANGED <<args, projects, pc, exit_code, exit_msg, report, idx, main_totals,
                   fetch_locals, effort, debt, requests, fetched>>

\* One turn of fetch_issues' loop (lines 66-100): the request for page p, the issues of
\* the page, the page count; and, when the loop ends with it, the return (101-106).
IssuesGet(D) ==
    /\ pc = "fetch_issues"
    /\ \E status \in D.Statuses :
        \/ /\ GetFails(status)
           /\ requests' = Append(requests, [api |-> "issues", project |-> idx, p |-> p,
                                            status |-> status, body |-> <<>>])
           /\ Abort("Failed to fetch data")
        \/ /\ ~GetFails(status)
           /\  LET body == Payload(p)
                    st == PageLoop([issues |-> issues, file_names |-> file_names,
                                    file_counter |-> file_counter], body.issues, args)
                    pages == TotalPages(body.total, body.ps)
                IN  /\ requests' = Append(requests, [api |-> "issues", project |-> idx,
                                                     p |-> p, status |-> status,
                                                     body |-> Totals(body)])
                    /\ data' = body
                    /\ issues' = st.issues
                    /\ file_names' = st.file_names
                    /\ file_counter' = st.file_counter
                    /\ total_pages' = pages
                    /\ p' = p + 1
                    /\ IF LoopContinues(p + 1, pages)
                       THEN /\ pc' = "fetch_issues"
                            /\ UNCHANGED <<effort, debt, fetched>>
                       ELSE /\ pc' = "fetch_metrics"
                            /\ effort' = body.effortTotal
                            /\ debt' = DebtOf(body)
                            /\ fetched' = Append(fetched,
                                   [project |-> idx, n_issues |-> Len(st.issues),
                                    file_names |-> st.file_names,
                                    effort |-> body.effortTotal, debt |-> DebtOf(body)])
                    /\ UNCHANGED <<args, projects, exit_code, exit_msg, report, idx,
                                   main_totals, srv, changes>>

\* The rest of the loop body (lines 232-252): the measures request, the project's
\* fragment, the roll-up.
MetricsGet(D) ==
    /\ pc = "fetch_metrics"
    /\ \E status \in D.Statuses :
        \/ /\ GetFails(status)
           /\ requests' = Append(requests, [api |-> "measures", project |-> idx, p |-> 0,
                                            status |-> status, body |-> <<>>])
           /\ Abort("Failed to fetch data")
        \/ /\ ~GetFails(status)
           /\ \E measures \in D.Measures, catalog \in D.Catalogs :
                LET body == [component |-> [measures |-> measures], metrics |-> catalog]
                    metrics == FetchMetrics(body)
                    project_key == IF args.anonymous THEN <<"Project", project_counter>>
                                   ELSE <<"key", projects[idx]>>
                    amounts == Amounts(issues, SEVERITIES, TYPES)
                IN  /\ requests' = Append(requests, [api |-> "measures", project |-> idx,
                                                     p |-> 0, status |-> status,
                                                     body |-> body])
                    /\ IF TableRaises(issues, SEVERITIES, TYPES)
                       THEN Abort("ValueError")
                       ELSE IF ~Has(metrics, "Security Hotspots")
                                \/ ~Has(metrics, "Lines of Code")
                       THEN Abort("KeyError")
                       ELSE /\ project_counter' = IF args.anonymous THEN project_counter + 1
                                                  ELSE project_counter
                            /\ total_effort' = total_effort + effort
                            /\ total_debt' = total_debt + debt
                            /\ total_hotspots' = total_hotspots
                                    + ParseInt(Lookup(metrics, "Security Hotspots"))
                            /\ total_loc' = total_loc + ParseInt(Lookup(metrics, "Lines of Code"))
                            /\ total_complexity' =
                                    IF Has(metrics, "Cyclomatic Complexity")
                                    THEN total_complexity
                                         + ParseInt(Lookup(metrics, "Cyclomatic Complexity"))
                                    ELSE total_complexity
                            /\ total_severity_amounts' = AddAmounts(total_severity_amounts, amounts)
                            /\ issues_data' = Append(issues_data,
                                    FormatIssues(issues, metrics, project_key, args,
                                                 SEVERITIES, TYPES))
                            /\ idx' = idx + 1
                            /\ pc' = "loop"
                            /\ UNCHANGED <<args, projects, exit_code, exit_msg, report,
                                           fetch_locals, effort, debt, srv, changes, fetched>>

\* After the last project (lines 254-267): the overall table and report.html.
WriteReport ==
    /\ pc = "loop"
    /\ idx > Len(projects)
    /\ report' = <<[overall |-> [effort |-> ConvertToReadableTime(total_effort),
                                 debt |-> ConvertToReadableTime(total_debt),
                                 hotspots |-> total_hotspots,
                                 loc |-> total_loc,
                                 complexity |-> total_complexity,
                                 severities |-> total_severity_amounts],
                    contents |-> issues_data]>>
    /\ pc' = "done"
    /\ exit_code' = 0
    /\ UNCHANGED <<args, projects, exit_msg, idx, main_totals, fetch_locals, effort, debt,
                   srv, changes, requests, fetched>>

\* ------------------------------------------------------------------ inputs

MaxProjects == 2
MaxTotal == 2
MaxPs == 2

a_py == <<"a", ".", "p", "y">>
b_py == <<"b", ".", "p", "y">>

Kind(component, severity, type, impact, quality, minutes) ==
    [component |-> component, severity |-> severity, type |-> type,
     impacts |-> <<[severity |-> impact, softwareQuality |-> quality]>>,
     effort |-> minutes]

Flags(anonymous, impact_severities, impact_qualities, include_issue_details) ==
    [anonymous |-> anonymous, impact_severities |-> impact_severities,
     impact_qualities |-> impact_qualities, include_issue_details |-> include_issue_details]

Measure(metric, value) == [metric |-> metric, value |-> value]
CatalogEntry(key, name) == [key |-> key, name |-> name]

FullCatalog ==
    <<CatalogEntry("ncloc", "Lines of Code"),
      CatalogEntry("security_hotspots", "Security Hotspots"),
      CatalogEntry("complexity", "Cyclomatic Complexity"),
      CatalogEntry("reliability_rating", "Reliability Rating"),
      CatalogEntry("sqale_index", "Technical Debt")>>

FullMeasures ==
    <<Measure("ncloc", <<"1", "2">>), Measure("security_hotspots", <<"3">>),
      Measure("complexity", <<"1", "0">>), Measure("reliability_rating", <<"2", ".", "0">>),
      Measure("sqale_index", <<"6", "5">>)>>

\* A plain run over one kind of issue, against servers with and without debtTotal,
\* whose requests succeed or fail.
RunInputs ==
    [Args |-> {Flags(FALSE, FALSE, FALSE, TRUE)},
     MaxProjects |-> MaxProjects, MaxTotal |-> MaxTotal, MaxPs |-> MaxPs,
     Kinds |-> {Kind(a_py, "MAJOR", "BUG", "MEDIUM", "RELIABILITY", 30)},
     Debts |-> {<<>>, <<40>>}, Changes |-> {"open", "close"},
     Statuses |-> {200, 500},
     Measures |-> {FullMeasures}, Catalogs |-> {FullCatalog}]

Init == InitOf(RunInputs)
Next ==
    \/ ForProject(RunInputs)
    \/ ServerChange(RunInputs)
    \/ IssuesGet(RunInputs)
    \/ MetricsGet(RunInputs)
    \/ WriteReport
Spec == Init /\ [][Next]_vars

\* ------------------------------------------------------------------ history

\* The requests of project k's issue search, in the order issued.
SearchRequests(k) ==
    LET Test(r) == r.api = "issues" /\ r.project = k IN SelectSeq(requests, Test)
MeasuresRequests(k) ==
    LET Test(r) == r.api = "measures" /\ r.project = k IN SelectSeq(requests, Test)

RECURSIVE SumOver(_, _)
\* The sum of f[i] over the indices in S.
SumOver(f, S) ==
    IF S = {} THEN 0 ELSE LET i == CHOOSE j \in S : TRUE IN f[i] + SumOver(f, S \ {i})

\* ------------------------------------------------------------------ C3

\* C3: a request answered with a status other than 200 is the run's last request, the
\* run has then exited with a non-zero status, and report.html is not written; when
\* report.html is written, every request got 200 and every project of the list had its
\* issue pages and its measures fetched.
C3_AbortOnFailedFetch ==
    /\ \A i \in DOMAIN requests :
          requests[i].status # 200 =>
              /\ i = Len(requests)
              /\ pc = "exit"
              /\ exit_code > 0
              /\ report = <<>>
    /\ report # <<>> =>
          /\ \A i \in DOMAIN requests : requests[i].status = 200
          /\ \A k \in DOMAIN projects :
                Len(SearchRequests(k)) >= 1 /\ Len(MeasuresRequests(k)) = 1

\* The second page of the second project's search fails.
C3_Witness ==
    /\ pc = "exit"
    /\ requests # <<>>
    /\ LET last == requests[Len(requests)]
       IN  last.status # 200 /\ last.api = "issues" /\ last.project = 2 /\ last.p = 2

\* ------------------------------------------------------------------ C8

\* C8: what fetch_issues returns as effort and debt comes from the payload of the last
\* page it requested: the debt is that payload's debtTotal, or its effortTotal when the
\* payload has no debtTotal, which never aborts the run; and the run's totals are the
\* sums of the returned values over the projects rolled up.
C8_TotalsFromLastPage ==
    /\ pc = "fetch_metrics" =>
          LET last == requests[Len(requests)].body
          IN  /\ effort = last.effortTotal
              /\ debt = IF last.debtTotal # <<>> THEN last.debtTotal[1] ELSE last.effortTotal
              /\ fetched[Len(fetched)].effort = effort
              /\ fetched[Len(fetched)].debt = debt
    /\ \A i \in DOMAIN requests :
          (requests[i].api = "issues" /\ requests[i].status = 200
              /\ requests[i].body.debtTotal = <<>>) => ~(pc = "exit" /\ i = Len(requests))
    /\ total_effort = SumOver([i \in DOMAIN fetched |-> fetched[i].effort], 1..(idx - 1))
    /\ total_debt = SumOver([i \in DOMAIN fetched |-> fetched[i].debt], 1..(idx - 1))
    /\ report # <<>> =>
          /\ report[1].overall.effort = ConvertToReadableTime(total_effort)
          /\ report[1].overall.debt = ConvertToReadableTime(total_debt)

\* Two projects are reported; the second one's server has no debtTotal, and the totals
\* of its last page differ from those of its first.
C8_Witness ==
    /\ pc = "done"
    /\ Len(projects) = 2
    /\ LET r == SearchRequests(2)
       IN  /\ Len(r) >= 2
           /\ r[Len(r)].body.debtTotal = <<>>
           /\ r[Len(r)].body.effortTotal # r[1].body.effortTotal
           /\ fetched[2].debt = r[Len(r)].body.effortTotal
    /\ total_debt = fetched[1].debt + fetched[2].debt
    /\ fetched[1].debt # fetched[1].effort

\* ------------------------------------------------------------------ paging

PagingProjects == 1
PagingTotal == 5
PagingPs == 3

\* Searches of up to PagingTotal issues in pages of up to PagingPs.
PagingInputs ==
    [Args |-> {Flags(FALSE, FALSE, FALSE, TRUE)},
     MaxProjects |-> PagingProjects, MaxTotal |-> PagingTotal, MaxPs |-> PagingPs,
     Kinds |-> {Kind(a_py, "MAJOR", "BUG", "MEDIUM", "RELIABILITY", 30)},
     Debts |-> {<<40>>}, Changes |-> {"open", "close"},
     Statuses |-> {200, 500},
     Measures |-> {FullMeasures}, Catalogs |-> {FullCatalog}]

InitPaging == InitOf(PagingInputs)
NextPaging ==
    \/ ForProject(PagingInputs)
    \/ ServerChange(PagingInputs)
    \/ IssuesGet(PagingInputs)
    \/ MetricsGet(PagingInputs)
    \/ WriteReport
SpecPaging == InitPaging /\ [][NextPaging]_vars

\* The number of pages of n issues in pages of ps: the least k >= 1 with k * ps >= n.
LastPage(n, ps) == CHOOSE k \in 1..(n + 1) : k * ps >= n /\ (k = 1 \/ (k - 1) * ps < n)

\* C1: when fetch_issues returns from a search during which the server's issues did
\* not change (a fixed total N, page size ps, N issues with distinct keys over
\* consecutive pages), the collection it returns holds exactly the server's N keys.
C1_AllKeysCollected ==
    (pc = "fetch_metrics" /\ changes = 0) =>
        /\ Cardinality({issues[i].k : i \in DOMAIN issues}) = Len(srv.issues)
        /\ {issues[i].k : i \in DOMAIN issues} = {srv.issues[i].key : i \in DOMAIN srv.issues}
        /\ Len(issues) = data.total
        /\ fetched[Len(fetched)].n_issues = data.total

\* Four issues in pages of two: the total is an exact multiple of the page size.
C1_Witness ==
    /\ pc = "fetch_metrics"
    /\ changes = 0
    /\ Len(srv.issues) = 4
    /\ srv.ps = 2
    /\ Len(issues) = 4

\* C9: every search requests the pages 1, 2, 3, ... in this order; page k + 1 is
\* requested only after page k was answered with k * ps < total in that answer, and the
\* search returns at the first answer with k * ps >= total; against a server whose
\* issues do not change, the search never requests a page beyond page LastPage(total,
\* ps) and returns after exactly that many requests (one when total <= ps).
C9_PagesInOrderUntilTotal ==
    \A k \in DOMAIN projects :
        LET r == SearchRequests(k)
            current == k = idx /\ pc \in {"fetch_issues", "fetch_metrics", "exit"}
            returned == k < idx \/ (k = idx /\ pc = "fetch_metrics")
        IN  /\ \A i \in DOMAIN r : r[i].p = i
            /\ \A i \in DOMAIN r :
                  (i < Len(r) \/ (k = idx /\ pc = "fetch_issues")) =>
                      r[i].status = 200 /\ i * r[i].body.ps < r[i].body.total
            /\ returned =>
                  /\ r # <<>>
                  /\ r[Len(r)].status = 200
                  /\ Len(r) * r[Len(r)].body.ps >= r[Len(r)].body.total
            /\ (current /\ changes = 0) =>
                  /\ Len(r) <= LastPage(Len(srv.issues), srv.ps)
                  /\ pc = "fetch_metrics" =>
                        Len(r) = IF Len(srv.issues) <= srv.ps THEN 1
                                 ELSE LastPage(Len(srv.issues), srv.ps)

\* Four issues in pages of three: two requests, the second for the partial page.
C9_Witness ==
    /\ pc = "fetch_metrics"
    /\ changes = 0
    /\ Len(srv.issues) = 4
    /\ srv.ps = 3
    /\ Len(SearchRequests(idx)) = 2

\* ------------------------------------------------------------------ matrix

MatrixProjects == 2
MatrixTotal == 2

\* Issues of two severities and two types, read by either vocabulary, served one to a
\* page; every request succeeds, and an issue may be opened during a search.
MatrixInputs ==
    [Args |-> {Flags(FALSE, FALSE, FALSE, FALSE), Flags(FALSE, TRUE, TRUE, FALSE)},
     MaxProjects |-> MatrixProjects, MaxTotal |-> MatrixTotal, MaxPs |-> 1,
     Kinds |-> {Kind(a_py, "MAJOR", "BUG", "MEDIUM", "RELIABILITY", 30),
                Kind(b_py, "BLOCKER", "CODE_SMELL", "HIGH", "MAINTAINABILITY", 45)},
     Debts |-> {<<40>>}, Changes |-> {"open"},
     Statuses |-> {200},
     Measures |-> {FullMeasures}, Catalogs |-> {FullCatalog}]

InitMatrix == InitOf(MatrixInputs)
NextMatrix ==
    \/ ForProject(MatrixInputs)
    \/ ServerChange(MatrixInputs)
    \/ IssuesGet(MatrixInputs)
    \/ MetricsGet(MatrixInputs)
    \/ WriteReport
SpecMatrix == InitMatrix /\ [][NextMatrix]_vars

\* The sum of all cells of a severity-by-type matrix.
CellSum(m) == SumOver([s \in DOMAIN m |-> m[s][1] + m[s][2] + m[s][3]], DOMAIN m)

\* C2: the cells of every rolled-up project's matrix sum to the number of issues
\* collected for that project; every cell of the grand matrix is the sum of that cell
\* over the projects' matrices, and its cells sum to the number of issues of all
\* projects rolled up so far; the report shows this grand matrix.
C2_MatrixSums ==
    LET done == DOMAIN issues_data
    IN  /\ \A i \in done : CellSum(issues_data[i].severities) = fetched[i].n_issues
        /\ \A s \in DOMAIN total_severity_amounts : \A t \in 1..3 :
              total_severity_amounts[s][t]
                  = SumOver([i \in done |-> issues_data[i].severities[s][t]], done)
        /\ CellSum(total_severity_amounts)
              = SumOver([i \in done |-> fetched[i].n_issues], done)
        /\ report # <<>> => report[1].overall.severities = total_severity_amounts

\* Two projects of two issues each are reported, the issues in two cells.
C2_Witness ==
    /\ pc = "done"
    /\ Len(issues_data) = 2
    /\ fetched[1].n_issues = 2
    /\ fetched[2].n_issues = 2
    /\ \E s1, s2 \in DOMAIN total_severity_amounts :
          s1 # s2 /\ CellSum(total_severity_amounts) = 4
          /\ \E t1, t2 \in 1..3 : total_severity_amounts[s1][t1] = 1
                                  /\ total_severity_amounts[s2][t2] = 3

\* ------------------------------------------------------------------ issue table

TableTotal == 3

\* One project whose issues share or differ in severity, component and type, listed
\* with their details, under either vocabulary.
TableInputs ==
    [Args |-> {Flags(FALSE, FALSE, FALSE, TRUE), Flags(FALSE, TRUE, TRUE, TRUE)},
     MaxProjects |-> 1, MaxTotal |-> TableTotal, MaxPs |-> 2,
     Kinds |-> {Kind(a_py, "MAJOR", "BUG", "MEDIUM", "RELIABILITY", 30),
                Kind(a_py, "MAJOR", "CODE_SMELL", "MEDIUM", "MAINTAINABILITY", 30),
                Kind(b_py, "MAJOR", "BUG", "MEDIUM", "RELIABILITY", 30),
                Kind(b_py, "BLOCKER", "BUG", "HIGH", "RELIABILITY", 30)},
     Debts |-> {<<40>>}, Changes |-> {"close"},
     Statuses |-> {200, 500},
     Measures |-> {FullMeasures}, Catalogs |-> {FullCatalog}]

InitTable == InitOf(TableInputs)
NextTable ==
    \/ ForProject(TableInputs)
    \/ ServerChange(TableInputs)
    \/ IssuesGet(TableInputs)
    \/ MetricsGet(TableInputs)
    \/ WriteReport
SpecTable == InitTable /\ [][NextTable]_vars

\* The project whose table was rendered last still has its issues in fetch_issues'
\* collection.
TableRendered == pc \in {"loop", "done"} /\ issues_data # <<>>
RenderedRows == issues_data[Len(issues_data)].issues

\* Rows in the order of the vocabulary's severities, then of the component names.
RowsOrdered(rows) ==
    \A i, j \in DOMAIN rows :
        i < j =>
            \/ Index(SEVERITIES, rows[i].severity) < Index(SEVERITIES, rows[j].severity)
            \/ /\ rows[i].severity = rows[j].severity
               /\ ~StrLess(rows[j].component, rows[i].component)

\* The collection with its arrival order permuted by q.
Rearranged(items, q) == [i \in DOMAIN items |-> items[q[i]]]

\* No two issues of the collection share both severity and component.
NoTies(items) ==
    \A i, j \in DOMAIN items :
        (items[i].v.severity = items[j].v.severity
            /\ items[i].v.component = items[j].v.component) => i = j

m_file == <<"m">>
d_n == <<"d", "/", "n">>

\* Runs with --anonymous over components with and without a "." in their path.
AnonInputs ==
    [Args |-> {Flags(TRUE, FALSE, FALSE, TRUE)},
     MaxProjects |-> MaxProjects, MaxTotal |-> MaxTotal, MaxPs |-> MaxPs,
     Kinds |-> {Kind(a_py, "MAJOR", "BUG", "MEDIUM", "RELIABILITY", 30),
                Kind(b_py, "MAJOR", "BUG", "MEDIUM", "RELIABILITY", 30),
                Kind(m_file, "MAJOR", "BUG", "MEDIUM", "RELIABILITY", 30),
                Kind(d_n, "MAJOR", "BUG", "MEDIUM", "RELIABILITY", 30)},
     Debts |-> {<<40>>}, Changes |-> {"open"},
     Statuses |-> {200, 500},
     Measures |-> {FullMeasures}, Catalogs |-> {FullCatalog}]

InitAnon == InitOf(AnonInputs)
NextAnon ==
    \/ ForProject(AnonInputs)
    \/ ServerChange(AnonInputs)
    \/ IssuesGet(AnonInputs)
    \/ MetricsGet(AnonInputs)
    \/ WriteReport
SpecAnon == InitAnon /\ [][NextAnon]_vars

\* Every (original path, alias) the run has assigned: the alias tables of the searches
\* that returned, and the table of the search under way.
AliasPairs ==
    UNION {{<<fetched[i].file_names[j].k, fetched[i].file_names[j].v>> :
                j \in DOMAIN fetched[i].file_names} : i \in DOMAIN fetched}
    \cup {<<file_names[j].k, file_names[j].v>> : j \in DOMAIN file_names}

\* C4: with pseudonymization on, over all pages and projects of a run, two issues get
\* the same alias exactly when they have the same original component path.
C4_AliasStableInjection ==
    args.anonymous =>
        \A e1, e2 \in AliasPairs : (e1[1] = e2[1]) <=> (e1[2] = e2[2])

\* The extension of a path: what follows the last "." of its last segment, nothing
\* when that segment has no ".".
FileExtension(path) ==
    LET slashes == {i \in DOMAIN path : path[i] = "/"}
        start == IF slashes = {} THEN 1 ELSE SetMax(slashes) + 1
        dots == {i \in start..Len(path) : path[i] = "."}
    IN  IF dots = {} THEN <<>> ELSE SubSeq(path, SetMax(dots) + 1, Len(path))

\* C10: an alias is file_<n>. followed by the extension and depends on nothing else of
\* the path: two searches whose first-seen paths have, position by position, the same
\* extensions get the same aliases, paths without "." included.
C10_AliasFromIndexAndExtension ==
    args.anonymous =>
        \A i, j \in DOMAIN fetched :
            LET fi == fetched[i].file_names
                fj == fetched[j].file_names
            IN  /\ \A k \in DOMAIN fi :
                      SubSeq(fi[k].v, 1, Len(FileAlias(k, <<>>))) = FileAlias(k, <<>>)
                /\ (Len(fi) = Len(fj)
                    /\ \A k \in DOMAIN fi : FileExtension(fi[k].k) = FileExtension(fj[k].k))
                   => \A k \in DOMAIN fi : fi[k].v = fj[k].v

\* ------------------------------------------------------------------ metrics

METRIC_KEYS ==
    {"ncloc", "security_hotspots", "reliability_rating", "security_rating", "sqale_rating",
     "security_hotspots_reviewed", "sqale_index", "vulnerabilities", "complexity"}

Without(seq, key) == LET Keep(e) == e.metric # key IN SelectSeq(seq, Keep)
CatalogWithout(seq, key) == LET Keep(e) == e.key # key IN SelectSeq(seq, Keep)

\* Measures answers that lack one of the metrics the roll-up reads, with a catalog
\* that names every metric or has no entry for complexity.
MetricsInputs ==
    [Args |-> {Flags(FALSE, FALSE, FALSE, TRUE)},
     MaxProjects |-> MaxProjects, MaxTotal |-> MaxTotal, MaxPs |-> MaxPs,
     Kinds |-> {Kind(a_py, "MAJOR", "BUG", "MEDIUM", "RELIABILITY", 30)},
     Debts |-> {<<40>>}, Changes |-> {"open"},
     Statuses |-> {200, 500},
     Measures |-> {FullMeasures, Without(FullMeasures, "complexity"),
                   Without(FullMeasures, "ncloc"),
                   Without(FullMeasures, "security_hotspots")},
     Catalogs |-> {FullCatalog, CatalogWithout(FullCatalog, "complexity")}]

InitMetrics == InitOf(MetricsInputs)
NextMetrics ==
    \/ ForProject(MetricsInputs)
    \/ ServerChange(MetricsInputs)
    \/ IssuesGet(MetricsInputs)
    \/ MetricsGet(MetricsInputs)
    \/ WriteReport
SpecMetrics == InitMetrics /\ [][NextMetrics]_vars

\* The metric keys of a measures answer, and the value it gives for a key (0 without).
MeasuredKeys(body) ==
    {body.component.measures[i].metric : i \in DOMAIN body.component.measures}
MeasuredValue(body, key) ==
    IF key \in MeasuredKeys(body)
    THEN LET ms == body.component.measures
         IN  ParseInt(ms[CHOOSE i \in DOMAIN ms : ms[i].metric = key].value)
    ELSE 0

\* The measures answers of the projects rolled up so far.
RolledUp == 1..Len(issues_data)
MeasuresOf(k) == MeasuresRequests(k)[1].body

\* C6: the grand total of complexity is the sum of the complexity values of the
\* rolled-up projects whose measures answer has the metric, whatever catalog came with
\* the answer; an answer that lacks only complexity does not abort the run.
C6_ComplexitySum ==
    /\ total_complexity
          = SumOver([k \in RolledUp |-> MeasuredValue(MeasuresOf(k), "complexity")], RolledUp)
    /\ (pc = "exit" /\ requests[Len(requests)].status = 200) =>
          ~({"ncloc", "security_hotspots"} \subseteq MeasuredKeys(requests[Len(requests)].body))

\* C7: for every requested metric key, a measures answer that lacks the key does not
\* abort the run; and the sums of lines of code and of security hotspots count the
\* projects whose answer has the metric.
C7_AbsentMetricNeverAborts ==
    /\ \A key \in METRIC_KEYS :
          (/\ requests # <<>>
           /\ requests[Len(requests)].api = "measures"
           /\ requests[Len(requests)].status = 200
           /\ key \notin MeasuredKeys(requests[Len(requests)].body)) => pc # "exit"
    /\ total_loc = SumOver([k \in RolledUp |-> MeasuredValue(MeasuresOf(k), "ncloc")], RolledUp)
    /\ total_hotspots
          = SumOver([k \in RolledUp |-> MeasuredValue(MeasuresOf(k), "security_hotspots")],
                    RolledUp)

====
